---- MODULE Spec2Model ----
(***************************************************************************)
(* Model of the gym management system: the subscription lifecycle          *)
(* (app/routes/subscriptions.py, app/models/subscription.py), the          *)
(* fingerprint attendance sync endpoint (app/routes/api.py) and the        *)
(* device command queue polled by the desktop bridge                       *)
(* (desktop_software/core/sync_manager.py).                                *)
(***************************************************************************)
EXTENDS Integers, Sequences, FiniteSets, TLC

(***************************************************************************)
(* Bounds of the model.                                                    *)
(***************************************************************************)
MaxDay == 3
MaxSubs == 1
MaxAmount == 4

(***************************************************************************)
(* Fixed tables: roles/users, members, plans.                              *)
(***************************************************************************)
NoBrand == 0
Brands == {1, 2}

\* users.brand_id is NULL for the owner; the role carries the permission flags
UserIds == {1, 2, 3, 4}
UserTable ==
  [u \in UserIds |->
     CASE u = 1 -> [brand_id |-> 1, can_view_all_brands |-> FALSE,
                    can_manage_members |-> TRUE, fingerprint_id |-> 11, is_active |-> TRUE]
       [] u = 2 -> [brand_id |-> 2, can_view_all_brands |-> FALSE,
                    can_manage_members |-> TRUE, fingerprint_id |-> 21, is_active |-> TRUE]
       [] u = 3 -> [brand_id |-> NoBrand, can_view_all_brands |-> TRUE,
                    can_manage_members |-> TRUE, fingerprint_id |-> 0, is_active |-> TRUE]
       [] u = 4 -> [brand_id |-> 1, can_view_all_brands |-> FALSE,
                    can_manage_members |-> FALSE, fingerprint_id |-> 12, is_active |-> FALSE]]

MemberIds == {1, 2, 3, 4}
MemberTable ==
  [m \in MemberIds |->
     CASE m = 1 -> [brand_id |-> 1, fingerprint_id |-> 13]
       [] m = 2 -> [brand_id |-> 2, fingerprint_id |-> 23]
       [] m = 3 -> [brand_id |-> 1, fingerprint_id |-> 11]
       [] m = 4 -> [brand_id |-> 1, fingerprint_id |-> 12]]

PlanIds == {1, 2, 3}
PlanTable ==
  [p \in PlanIds |->
     CASE p = 1 -> [brand_id |-> 1, duration_days |-> 1, price |-> 2,
                    max_freezes |-> 1, max_freeze_days |-> 1]
       [] p = 2 -> [brand_id |-> 1, duration_days |-> 2, price |-> 2,
                    max_freezes |-> 2, max_freeze_days |-> 2]
       [] p = 3 -> [brand_id |-> 2, duration_days |-> 1, price |-> 2,
                    max_freezes |-> 1, max_freeze_days |-> 2]]

\* gift cards as issued: remaining_amount = original_amount, status active;
\* the code of card g is g, NoCode is the empty form field; card 2 expires
\* at the end of day 0, card 3 belongs to the other brand
NoCode == 0
NoDate == -1
GiftIds == {1, 2, 3}
GiftTable ==
  [g \in GiftIds |->
     CASE g = 1 -> [brand_id |-> 1, original_amount |-> 3, expires_at |-> NoDate]
       [] g = 2 -> [brand_id |-> 1, original_amount |-> 1, expires_at |-> 0]
       [] g = 3 -> [brand_id |-> 2, original_amount |-> 1, expires_at |-> NoDate]]

\* promotional offers: fixed_amount discounts, valid on every day of the model
NoOffer == 0
OfferIds == {1, 2}
OfferTable ==
  [o \in OfferIds |->
     CASE o = 1 -> [brand_id |-> 1, discount_value |-> 1, max_uses |-> 1]
       [] o = 2 -> [brand_id |-> 2, discount_value |-> 1, max_uses |-> 0]]

\* Subscription.status column comment: active, frozen, expired, cancelled, stopped
StatusSet == {"active", "frozen", "expired", "cancelled", "stopped"}
TerminalStatus == {"expired", "cancelled", "stopped"}

\* values the forms accept: DataRequired rejects 0 (falsy), nothing rejects a sign
AmountInputs == {-1, 2}
\* the inputs the lifecycle specification draws from
LifecycleAmounts == {2}
LifecyclePlans == {1}
LifecycleMembers == {1}
LifecycleUsers == {1}
LifecycleFreezeDays == {1, 2}
\* the inputs the access-control specification draws from
AccessPlans == {1, 3}
AccessMembers == {1, 2}
FreezeDayInputs == {-1, 1, 2}

VARIABLES
  today,      \* date.today(), as a day number
  subs,       \* the subscriptions table: sequence of rows, id = index
  lastOp,     \* the last request handled and its outcome
  empRows,    \* the employee_attendance table
  memRows,    \* the member_attendance table
  submitted,  \* history: the well-formed, resolvable records sent so far
  lastSync,   \* the response to the last attendance sync request
  cmds,       \* the device_commands table: sequence of rows, id = index
  pc,         \* where the desktop bridge is in its sync cycle
  todo,       \* the commands the bridge fetched and has not handled yet
  success,    \* the result of _execute_command for the command in hand
  localDb,    \* the Employee row of the device database (.mdb)
  lastAttempt,\* history: how the last attempt on each command ended
  lastPoll,   \* history: how the last poll of the bridge ended
  giftCards,  \* the gift_cards table: remaining_amount and status per card
  offers,     \* the promotional_offers table: current_uses per offer
  executions, \* history: the commands run on the device database, in order
  commands_list, \* the pending commands the commands page of the desktop shows
  is_syncing, \* SyncManager.is_syncing
  ctl_syncing,\* AppController.is_syncing
  syncPc,     \* where each thread that calls SyncManager.sync() is
  syncResult  \* history: what the last sync() call of each thread returned

subVars == <<today, subs, lastOp>>
attVars == <<empRows, memRows, submitted, lastSync>>
cmdVars == <<cmds, pc, todo, success, localDb, lastAttempt, lastPoll>>
promoVars == <<giftCards, offers>>
deskVars == <<executions, commands_list>>
syncVars == <<is_syncing, ctl_syncing, syncPc, syncResult>>
vars == <<today, subs, lastOp, empRows, memRows, submitted, lastSync,
          cmds, pc, todo, success, localDb, lastAttempt, lastPoll,
          giftCards, offers, executions, commands_list,
          is_syncing, ctl_syncing, syncPc, syncResult>>

SubIds == 1..Len(subs)

(***************************************************************************)
(* Model helpers (app/models).                                             *)
(***************************************************************************)
Max(a, b) == IF a >= b THEN a ELSE b
Min(a, b) == IF a <= b THEN a ELSE b

RECURSIVE SumSeq(_)
SumSeq(s) == IF s = <<>> THEN 0 ELSE Head(s) + SumSeq(Tail(s))

\* User.can_access_brand
CanAccessBrand_Open(u, brand_id) == TRUE
CanAccessBrand(u, brand_id) ==
  IF UserTable[u].can_view_all_brands THEN TRUE
  ELSE UserTable[u].brand_id = brand_id

\* members_required decorator
MembersRequired(u) == UserTable[u].can_manage_members

\* Member.has_active_subscription
HasActiveSubscription(m) ==
  \E s \in SubIds : /\ subs[s].member_id = m
                    /\ subs[s].status = "active"
                    /\ subs[s].end_date >= today

\* Subscription.freeze_count, can_freeze, total_freeze_days
FreezeCount(sub) == Len(sub.freezes)
CanFreeze(sub) ==
  IF sub.status # "active" THEN FALSE
  ELSE FreezeCount(sub) < PlanTable[sub.plan_id].max_freezes
TotalFreezeDays(sub) == SumSeq(sub.freezes)

\* Subscription.check_and_update_status
CheckAndUpdateStatus_AlsoFrozen(sub, day) ==
  IF sub.status \in {"active", "frozen"} /\ sub.end_date < day
  THEN [sub EXCEPT !.status = "expired"]
  ELSE sub
CheckAndUpdateStatus(sub, day) ==
  IF sub.status = "active" /\ sub.end_date < day
  THEN [sub EXCEPT !.status = "expired"]
  ELSE sub

(***************************************************************************)
(* Row updates made by the route handlers (app/routes/subscriptions.py).   *)
(***************************************************************************)
\* create: the Subscription(...) row built from the form.  The constructor
\* is not given gift_card_amount, so the column keeps its default 0.
NewSubscription(m, p, discount, offer_discount, gift_card_id, gift_card_amount, paid) ==
  LET plan == PlanTable[p]
      total == plan.price - discount - offer_discount - gift_card_amount
  IN [member_id |-> m, plan_id |-> p, brand_id |-> MemberTable[m].brand_id,
      end_date |-> today + plan.duration_days,
      total_amount |-> total, paid_amount |-> paid,
      remaining_amount |-> Max(0, total - paid),
      discount |-> discount,
      offer_discount |-> offer_discount,
      gift_card_id |-> gift_card_id,
      gift_card_amount |-> 0,
      status |-> "active",
      freezes |-> <<>>,
      payments |-> IF paid > 0 THEN <<paid>> ELSE <<>>,
      incomes |-> IF paid > 0 THEN <<paid>> ELSE <<>>]

\* renew: "Update subscription" and "Create payment record"
ApplyRenew(sub, p, new_start, paid) ==
  LET plan == PlanTable[p]
      total == sub.total_amount + plan.price
      paidTotal == sub.paid_amount + paid
  IN [sub EXCEPT !.plan_id = p,
                 !.end_date = new_start + plan.duration_days,
                 !.total_amount = total,
                 !.paid_amount = paidTotal,
                 !.remaining_amount = total - paidTotal,
                 !.status = "active",
                 !.payments = IF paid > 0 THEN Append(@, paid) ELSE @,
                 !.incomes = IF paid > 0 THEN Append(@, paid) ELSE @]

\* freeze: "Create freeze record" and "Update subscription"
ApplyFreeze_WrongStatus(sub, freeze_days) ==
  [sub EXCEPT !.freezes = Append(@, freeze_days),
              !.end_date = @ + freeze_days,
              !.status = "freezed"]
ApplyFreeze_NoExtension(sub, freeze_days) ==
  [sub EXCEPT !.freezes = Append(@, freeze_days),
              !.status = "frozen"]
ApplyFreeze(sub, freeze_days) ==
  [sub EXCEPT !.freezes = Append(@, freeze_days),
              !.end_date = @ + freeze_days,
              !.status = "frozen"]

\* unfreeze: the status guard of the handler
UnfreezeAllowed_Any(sub) == TRUE
UnfreezeAllowed(sub) == sub.status = "frozen"

\* add_payment: payment row and amounts
ApplyPayment(sub, amount) ==
  LET paidTotal == sub.paid_amount + amount
  IN [sub EXCEPT !.payments = Append(@, amount),
                 !.incomes = Append(@, amount),
                 !.paid_amount = paidTotal,
                 !.remaining_amount = sub.total_amount - paidTotal]

Op(name, result) == [op |-> name, result |-> result]

(***************************************************************************)
(* Route handlers.  Each action is one request; the guards follow the      *)
(* early returns of the handler in order.                                  *)
(***************************************************************************)
\* create: "if offer and offer.can_use".  PromotionalOffer defines is_valid
\* and can_apply but no can_use, so reading the attribute raises
OfferCanUse_Always(o) == "yes"
OfferCanUse(o) == "AttributeError"

\* create: GiftCard.query.filter_by(brand_id, code, status='active').first()
GiftLookup(brand_id, code) ==
  {g \in GiftIds : /\ GiftTable[g].brand_id = brand_id
                   /\ g = code
                   /\ giftCards[g].status = "active"}

\* create: "if gift_card and gift_card.remaining_amount > 0"
GiftCardAmount(found, price_left) ==
  IF found = {} THEN 0
  ELSE LET card == giftCards[CHOOSE g \in found : TRUE] IN
         IF card.remaining_amount > 0
         THEN Min(card.remaining_amount, price_left)
         ELSE 0

\* create: the gift card row after gift_card_amount was taken from it
DebitAtCreate(card, gift_card_amount) ==
  LET left == card.remaining_amount - gift_card_amount
  IN [remaining_amount |-> left,
      status |-> IF left <= 0 THEN "redeemed" ELSE card.status]

\* POST /subscriptions/create?member_id=m
create(u, m, p, discount, offer_id, gift_card_code, paid) ==
  IF ~MembersRequired(u)
    THEN /\ lastOp' = Op("create", "no_role")
         /\ UNCHANGED <<today, subs, promoVars>>
  ELSE IF ~CanAccessBrand(u, MemberTable[m].brand_id)
    THEN /\ lastOp' = Op("create", "forbidden")
         /\ UNCHANGED <<today, subs, promoVars>>
  ELSE IF HasActiveSubscription(m)
    THEN /\ lastOp' = Op("create", "has_active")
         /\ UNCHANGED <<today, subs, promoVars>>
  ELSE IF \/ PlanTable[p].brand_id # MemberTable[m].brand_id
          \/ offer_id # NoOffer /\ OfferTable[offer_id].brand_id # MemberTable[m].brand_id
          \/ paid = 0
    THEN \* plan_id or offer_id is not among the form's choices, or
         \* DataRequired rejects the paid amount: validation fails
         /\ lastOp' = Op("create", "invalid")
         /\ UNCHANGED <<today, subs, promoVars>>
  ELSE IF offer_id # NoOffer /\ OfferCanUse(offer_id) = "AttributeError"
    THEN \* the request ends in an internal server error before any commit
         /\ lastOp' = Op("create", "error")
         /\ UNCHANGED <<today, subs, promoVars>>
  ELSE
    LET use_offer == offer_id # NoOffer /\ OfferCanUse(offer_id) = "yes"
        offer_discount == IF use_offer THEN OfferTable[offer_id].discount_value ELSE 0
        found == IF gift_card_code = NoCode THEN {}
                 ELSE GiftLookup(MemberTable[m].brand_id, gift_card_code)
        gift_card_id == IF found = {} THEN NoCode ELSE CHOOSE g \in found : TRUE
        gift_card_amount ==
          GiftCardAmount(found, PlanTable[p].price - discount - offer_discount)
    IN /\ offers' = IF use_offer
                    THEN [offers EXCEPT ![offer_id].current_uses = @ + 1]
                    ELSE offers
       /\ giftCards' = IF found # {} /\ giftCards[gift_card_id].remaining_amount > 0
                       THEN [giftCards EXCEPT ![gift_card_id] =
                               DebitAtCreate(@, gift_card_amount)]
                       ELSE giftCards
       /\ subs' = Append(subs, NewSubscription(m, p, discount, offer_discount,
                                               gift_card_id, gift_card_amount, paid))
       /\ lastOp' = Op("create", "ok")
       /\ UNCHANGED today

\* GET /subscriptions/<s>
view(u, s) ==
  IF ~MembersRequired(u)
    THEN /\ lastOp' = Op("view", "no_role")
         /\ UNCHANGED <<today, subs>>
  ELSE IF ~CanAccessBrand(u, subs[s].brand_id)
    THEN /\ lastOp' = Op("view", "forbidden")
         /\ UNCHANGED <<today, subs>>
  ELSE /\ subs' = [subs EXCEPT ![s] = CheckAndUpdateStatus(@, today)]
       /\ lastOp' = Op("view", "ok")
       /\ UNCHANGED today

\* POST /subscriptions/<s>/renew
renew(u, s, p, new_start, paid) ==
  IF ~MembersRequired(u)
    THEN /\ lastOp' = Op("renew", "no_role")
         /\ UNCHANGED <<today, subs>>
  ELSE IF ~CanAccessBrand(u, subs[s].brand_id)
    THEN /\ lastOp' = Op("renew", "forbidden")
         /\ UNCHANGED <<today, subs>>
  ELSE IF PlanTable[p].brand_id # subs[s].brand_id \/ paid = 0
    THEN /\ lastOp' = Op("renew", "invalid")
         /\ UNCHANGED <<today, subs>>
  ELSE /\ subs[s].total_amount + PlanTable[p].price <= MaxAmount
       /\ subs[s].paid_amount + paid <= MaxAmount
       /\ subs[s].paid_amount + paid >= -MaxAmount
       /\ subs' = [subs EXCEPT ![s] = ApplyRenew(@, p, new_start, paid)]
       /\ lastOp' = Op("renew", "ok")
       /\ UNCHANGED today

\* POST /subscriptions/<s>/freeze
freeze(u, s, freeze_days) ==
  IF ~MembersRequired(u)
    THEN /\ lastOp' = Op("freeze", "no_role")
         /\ UNCHANGED <<today, subs>>
  ELSE IF ~CanAccessBrand(u, subs[s].brand_id)
    THEN /\ lastOp' = Op("freeze", "forbidden")
         /\ UNCHANGED <<today, subs>>
  ELSE IF ~CanFreeze(subs[s])
    THEN /\ lastOp' = Op("freeze", "cannot_freeze")
         /\ UNCHANGED <<today, subs>>
  ELSE IF freeze_days = 0
    THEN \* DataRequired rejects 0; no validator looks at the sign
         /\ lastOp' = Op("freeze", "invalid")
         /\ UNCHANGED <<today, subs>>
  ELSE IF freeze_days >
          PlanTable[subs[s].plan_id].max_freeze_days - TotalFreezeDays(subs[s])
    THEN /\ lastOp' = Op("freeze", "too_many_days")
         /\ UNCHANGED <<today, subs>>
  ELSE /\ subs' = [subs EXCEPT ![s] = ApplyFreeze(@, freeze_days)]
       /\ lastOp' = Op("freeze", "ok")
       /\ UNCHANGED today

\* POST /subscriptions/<s>/unfreeze
unfreeze(u, s) ==
  IF ~MembersRequired(u)
    THEN /\ lastOp' = Op("unfreeze", "no_role")
         /\ UNCHANGED <<today, subs>>
  ELSE IF ~CanAccessBrand(u, subs[s].brand_id)
    THEN /\ lastOp' = Op("unfreeze", "forbidden")
         /\ UNCHANGED <<today, subs>>
  ELSE IF ~UnfreezeAllowed(subs[s])
    THEN /\ lastOp' = Op("unfreeze", "not_frozen")
         /\ UNCHANGED <<today, subs>>
  ELSE /\ subs' = [subs EXCEPT ![s].status = "active"]
       /\ lastOp' = Op("unfreeze", "ok")
       /\ UNCHANGED today

\* POST /subscriptions/<s>/payment
add_payment(u, s, amount) ==
  IF ~MembersRequired(u)
    THEN /\ lastOp' = Op("add_payment", "no_role")
         /\ UNCHANGED <<today, subs>>
  ELSE IF ~CanAccessBrand(u, subs[s].brand_id)
    THEN /\ lastOp' = Op("add_payment", "forbidden")
         /\ UNCHANGED <<today, subs>>
  ELSE IF amount = 0
    THEN /\ lastOp' = Op("add_payment", "invalid")
         /\ UNCHANGED <<today, subs>>
  ELSE /\ subs[s].paid_amount + amount <= MaxAmount
       /\ subs[s].paid_amount + amount >= -MaxAmount
       /\ subs' = [subs EXCEPT ![s] = ApplyPayment(@, amount)]
       /\ lastOp' = Op("add_payment", "ok")
       /\ UNCHANGED today

\* POST /subscriptions/<s>/stop
stop(u, s) ==
  IF ~MembersRequired(u)
    THEN /\ lastOp' = Op("stop", "no_role")
         /\ UNCHANGED <<today, subs>>
  ELSE IF ~CanAccessBrand(u, subs[s].brand_id)
    THEN /\ lastOp' = Op("stop", "forbidden")
         /\ UNCHANGED <<today, subs>>
  ELSE IF subs[s].status \notin {"active", "frozen"}
    THEN /\ lastOp' = Op("stop", "cannot_stop")
         /\ UNCHANGED <<today, subs>>
  ELSE /\ subs' = [subs EXCEPT ![s].status = "stopped"]
       /\ lastOp' = Op("stop", "ok")
       /\ UNCHANGED today

(***************************************************************************)
(* Gift cards (app/models/giftcard.py) and the redeem API.                 *)
(***************************************************************************)
\* GiftCard.is_valid
GiftCardIsValid(g) ==
  /\ giftCards[g].status \in {"active", "partially_used"}
  /\ ~(GiftTable[g].expires_at # NoDate /\ GiftTable[g].expires_at < today)
  /\ giftCards[g].remaining_amount > 0

\* GiftCard.redeem: the card row after a successful redemption; the amount
\* is capped at the balance and is compared with nothing else
GiftCardRedeem(card, amount) ==
  LET taken == IF amount > card.remaining_amount
               THEN card.remaining_amount ELSE amount
      left == card.remaining_amount - taken
  IN [remaining_amount |-> left,
      status |-> IF left <= 0 THEN "redeemed" ELSE "partially_used"]

\* POST /api/gift-cards/<g>/redeem with {"amount": amount}
redeem_gift_card(g, amount) ==
  IF amount = 0
    THEN /\ lastOp' = Op("redeem", "amount_required")
         /\ UNCHANGED <<today, subs, promoVars>>
  ELSE IF ~GiftCardIsValid(g)
    THEN /\ lastOp' = Op("redeem", "not_valid")
         /\ UNCHANGED <<today, subs, promoVars>>
  ELSE /\ giftCards[g].remaining_amount - amount <= MaxAmount
       /\ giftCards' = [giftCards EXCEPT ![g] = GiftCardRedeem(@, amount)]
       /\ lastOp' = Op("redeem", "ok")
       /\ UNCHANGED <<today, subs, offers>>

\* renew (GET): the start date the form is pre-filled with
DefaultRenewStart(sub) == IF sub.end_date >= today THEN sub.end_date ELSE today

\* midnight: date.today() advances
NextDay ==
  /\ today < MaxDay
  /\ today' = today + 1
  /\ lastOp' = Op("tick", "ok")
  /\ UNCHANGED subs
  /\ UNCHANGED <<attVars, cmdVars, promoVars, deskVars, syncVars>>

Init ==
  /\ today = 0
  /\ subs = <<>>
  /\ lastOp = Op("init", "ok")
  /\ empRows = <<>>
  /\ memRows = <<>>
  /\ submitted = {}
  /\ lastSync = [brand_id |-> NoBrand, records |-> <<>>, http |-> 0,
                 synced |-> 0, errors |-> 0]
  /\ cmds = <<>>
  /\ pc = "idle"
  /\ todo = <<>>
  /\ success = FALSE
  /\ localDb = "open"
  /\ lastAttempt = <<>>
  /\ lastPoll = "none"
  /\ giftCards = [g \in GiftIds |->
                    [remaining_amount |-> GiftTable[g].original_amount,
                     status |-> "active"]]
  /\ offers = [o \in OfferIds |-> [current_uses |-> 0]]
  /\ executions = <<>>
  /\ commands_list = <<>>
  /\ is_syncing = FALSE
  /\ ctl_syncing = FALSE
  /\ syncPc = [t \in {"auto", "manual"} |-> "idle"]
  /\ syncResult = [t \in {"auto", "manual"} |-> "none"]

CreateStep ==
  /\ \E u \in LifecycleUsers, m \in LifecycleMembers, p \in LifecyclePlans,
                  paid \in LifecycleAmounts :
                  create(u, m, p, 0, NoOffer, NoCode, paid)
  /\ Len(subs) < MaxSubs
  /\ UNCHANGED <<attVars, cmdVars, deskVars, syncVars>>
ViewStep ==
  /\ \E u \in LifecycleUsers, s \in SubIds : view(u, s)
  /\ UNCHANGED <<attVars, cmdVars, promoVars, deskVars, syncVars>>
RenewStep ==
  /\ \E u \in LifecycleUsers, s \in SubIds :
                 \E p \in LifecyclePlans, paid \in LifecycleAmounts :
                    renew(u, s, p, DefaultRenewStart(subs[s]), paid)
  /\ UNCHANGED <<attVars, cmdVars, promoVars, deskVars, syncVars>>
FreezeStep ==
  /\ \E u \in LifecycleUsers, s \in SubIds, d \in LifecycleFreezeDays :
                  freeze(u, s, d)
  /\ UNCHANGED <<attVars, cmdVars, promoVars, deskVars, syncVars>>
UnfreezeStep ==
  /\ \E u \in LifecycleUsers, s \in SubIds : unfreeze(u, s)
  /\ UNCHANGED <<attVars, cmdVars, promoVars, deskVars, syncVars>>
PaymentStep ==
  /\ \E u \in LifecycleUsers, s \in SubIds, a \in LifecycleAmounts :
                   add_payment(u, s, a)
  /\ UNCHANGED <<attVars, cmdVars, promoVars, deskVars, syncVars>>
StopStep ==
  /\ \E u \in LifecycleUsers, s \in SubIds : stop(u, s)
  /\ UNCHANGED <<attVars, cmdVars, promoVars, deskVars, syncVars>>

Next ==
  \/ CreateStep
  \/ ViewStep
  \/ RenewStep
  \/ FreezeStep
  \/ UnfreezeStep
  \/ PaymentStep
  \/ StopStep
  \/ NextDay

\* the subscription lifecycle, driven by a user of the subscription's brand
Spec == Init /\ [][Next]_vars

(***************************************************************************)
(* The same handlers requested by every kind of user (own brand, other     *)
(* brand, owner, no member-management role) on subscriptions of two brands.*)
(***************************************************************************)
AccessCreate ==
  /\ \E u \in UserIds, m \in AccessMembers, p \in AccessPlans,
                    paid \in LifecycleAmounts :
                    create(u, m, p, 0, NoOffer, NoCode, paid)
  /\ Len(subs) < MaxSubs
  /\ UNCHANGED <<attVars, cmdVars, deskVars, syncVars>>
AccessView ==
  /\ \E u \in UserIds, s \in SubIds : view(u, s)
  /\ UNCHANGED <<attVars, cmdVars, promoVars, deskVars, syncVars>>
AccessRenew ==
  /\ \E u \in UserIds, s \in SubIds :
                   \E p \in AccessPlans, paid \in LifecycleAmounts :
                      renew(u, s, p, DefaultRenewStart(subs[s]), paid)
  /\ UNCHANGED <<attVars, cmdVars, promoVars, deskVars, syncVars>>
AccessFreeze ==
  /\ \E u \in UserIds, s \in SubIds, d \in LifecycleFreezeDays :
                    freeze(u, s, d)
  /\ UNCHANGED <<attVars, cmdVars, promoVars, deskVars, syncVars>>
AccessUnfreeze ==
  /\ \E u \in UserIds, s \in SubIds : unfreeze(u, s)
  /\ UNCHANGED <<attVars, cmdVars, promoVars, deskVars, syncVars>>
AccessPayment ==
  /\ \E u \in UserIds, s \in SubIds, a \in LifecycleAmounts :
                     add_payment(u, s, a)
  /\ UNCHANGED <<attVars, cmdVars, promoVars, deskVars, syncVars>>
AccessStop ==
  /\ \E u \in UserIds, s \in SubIds : stop(u, s)
  /\ UNCHANGED <<attVars, cmdVars, promoVars, deskVars, syncVars>>

NextAccess ==
  \/ AccessCreate
  \/ AccessView
  \/ AccessRenew
  \/ AccessFreeze
  \/ AccessUnfreeze
  \/ AccessPayment
  \/ AccessStop

SpecAccess == Init /\ [][NextAccess]_vars

(***************************************************************************)
(* The lifecycle of up to two subscriptions of one member, with both plans *)
(* of the brand on offer.                                                  *)
(***************************************************************************)
MaxMemberSubs == 2
BrandPlans == {1, 2}

PlanCreate ==
  /\ Len(subs) < MaxMemberSubs
  /\ \E u \in LifecycleUsers, m \in LifecycleMembers, p \in BrandPlans,
        paid \in LifecycleAmounts :
        create(u, m, p, 0, NoOffer, NoCode, paid)
  /\ UNCHANGED <<attVars, cmdVars, deskVars, syncVars>>
PlanRenew ==
  /\ \E u \in LifecycleUsers, s \in SubIds :
       \E p \in BrandPlans, paid \in LifecycleAmounts :
          renew(u, s, p, DefaultRenewStart(subs[s]), paid)
  /\ UNCHANGED <<attVars, cmdVars, promoVars, deskVars, syncVars>>
PlanFreeze ==
  /\ \E u \in LifecycleUsers, s \in SubIds, d \in LifecycleFreezeDays :
       freeze(u, s, d)
  /\ UNCHANGED <<attVars, cmdVars, promoVars, deskVars, syncVars>>
PlanUnfreeze ==
  /\ \E u \in LifecycleUsers, s \in SubIds : unfreeze(u, s)
  /\ UNCHANGED <<attVars, cmdVars, promoVars, deskVars, syncVars>>

NextPlans ==
  \/ PlanCreate
  \/ PlanRenew
  \/ PlanFreeze
  \/ PlanUnfreeze
  \/ NextDay

SpecPlans == Init /\ [][NextPlans]_vars

(***************************************************************************)
(* One subscription, frozen with every day count the freeze form lets      *)
(* through: IntegerField with DataRequired only.                           *)
(***************************************************************************)
FormFreezeDays == {-1, 0, 1, 2}

FormCreate ==
  /\ Len(subs) < MaxSubs
  /\ \E u \in LifecycleUsers, m \in LifecycleMembers, p \in BrandPlans,
        paid \in LifecycleAmounts :
        create(u, m, p, 0, NoOffer, NoCode, paid)
  /\ UNCHANGED <<attVars, cmdVars, deskVars, syncVars>>
FormFreeze ==
  /\ \E u \in LifecycleUsers, s \in SubIds, d \in FormFreezeDays :
       freeze(u, s, d)
  /\ UNCHANGED <<attVars, cmdVars, promoVars, deskVars, syncVars>>
FormUnfreeze ==
  /\ \E u \in LifecycleUsers, s \in SubIds : unfreeze(u, s)
  /\ UNCHANGED <<attVars, cmdVars, promoVars, deskVars, syncVars>>

NextForm ==
  \/ FormCreate
  \/ FormFreeze
  \/ FormUnfreeze
  \/ NextDay

SpecForm == Init /\ [][NextForm]_vars

(***************************************************************************)
(* Subscriptions of one member paid partly with gift cards, and the redeem *)
(* API.  Card 3 belongs to another brand; card 2 expires after day 0.      *)
(***************************************************************************)
GiftCodes == {NoCode, 1, 2, 3}
DiscountInputs == {0, 3}
RedeemAmounts == {-1, 0, 1, 5}

GiftCreate ==
  /\ Len(subs) < MaxMemberSubs
  /\ \E u \in LifecycleUsers, m \in LifecycleMembers, p \in LifecyclePlans,
        discount \in DiscountInputs, code \in GiftCodes,
        paid \in LifecycleAmounts :
        create(u, m, p, discount, NoOffer, code, paid)
  /\ UNCHANGED <<attVars, cmdVars, deskVars, syncVars>>
GiftRedeem ==
  /\ \E g \in GiftIds, amount \in RedeemAmounts : redeem_gift_card(g, amount)
  /\ UNCHANGED <<attVars, cmdVars, deskVars, syncVars>>

NextGift ==
  \/ GiftCreate
  \/ GiftRedeem
  \/ NextDay

SpecGift == Init /\ [][NextGift]_vars

(***************************************************************************)
(* The money fields of one subscription under every amount the forms let   *)
(* through: DecimalField with DataRequired (paid amounts) or Optional      *)
(* (discount).                                                             *)
(***************************************************************************)
MaxPayments == 3

MoneyCreate ==
  /\ Len(subs) < MaxSubs
  /\ \E u \in LifecycleUsers, m \in LifecycleMembers, p \in LifecyclePlans,
        discount \in DiscountInputs, paid \in AmountInputs \cup {0} :
        create(u, m, p, discount, NoOffer, NoCode, paid)
  /\ UNCHANGED <<attVars, cmdVars, deskVars, syncVars>>
MoneyRenew ==
  /\ \E u \in LifecycleUsers, s \in SubIds :
       \E p \in LifecyclePlans, paid \in AmountInputs \cup {0} :
          renew(u, s, p, DefaultRenewStart(subs[s]), paid)
  /\ UNCHANGED <<attVars, cmdVars, promoVars, deskVars, syncVars>>
MoneyPayment ==
  /\ \E u \in LifecycleUsers, s \in SubIds, a \in AmountInputs \cup {0} :
       /\ Len(subs[s].payments) < MaxPayments
       /\ add_payment(u, s, a)
  /\ UNCHANGED <<attVars, cmdVars, promoVars, deskVars, syncVars>>

NextMoney ==
  \/ MoneyCreate
  \/ MoneyRenew
  \/ MoneyPayment
  \/ NextDay

SpecMoney == Init /\ [][NextMoney]_vars

(***************************************************************************)
(* Subscriptions created with a promotional offer selected in the form.    *)
(***************************************************************************)
OfferMembers == {1, 3}
OfferChoices == {NoOffer, 1, 2}

OfferCreate ==
  /\ Len(subs) < MaxMemberSubs
  /\ \E u \in LifecycleUsers, m \in OfferMembers, p \in BrandPlans,
        offer_id \in OfferChoices, paid \in LifecycleAmounts :
        create(u, m, p, 0, offer_id, NoCode, paid)
  /\ UNCHANGED <<attVars, cmdVars, deskVars, syncVars>>
OfferFreeze ==
  /\ \E u \in LifecycleUsers, s \in SubIds, d \in LifecycleFreezeDays :
       freeze(u, s, d)
  /\ UNCHANGED <<attVars, cmdVars, promoVars, deskVars, syncVars>>

NextOffer ==
  \/ OfferCreate
  \/ OfferFreeze
  \/ NextDay

SpecOffer == Init /\ [][NextOffer]_vars

(***************************************************************************)
(* Fingerprint attendance sync: POST /api/fingerprint/attendance           *)
(* (app/routes/api.py, sync_attendance).                                   *)
(***************************************************************************)
MaxBatch == 2
MaxRows == 3

\* brands 1 and 2 exist and use fingerprint devices; brand 3 does not
UsesFingerprint(b) == b \in {1, 2}
SyncBrands == {NoBrand, 1, 2, 3}

\* fingerprint_log_id is the row id of the device's own log (TimeRecords in
\* the .mdb file): each brand's device numbers its log from 1.  Entry i of
\* DeviceLog[b] is the fingerprint id that checked in as log row i.
DeviceLog ==
  [b \in SyncBrands |->
     CASE b = 2 -> <<23, 21, 99>>
       [] OTHER -> <<13, 11, 12>>]

NonDict == [kind |-> "other", fingerprint_id |-> 0, timestamp |-> "missing", log_id |-> 0]
DeviceRecord(fp, ts, log_id) ==
  [kind |-> "dict", fingerprint_id |-> fp, timestamp |-> ts, log_id |-> log_id]

\* what a client can send for brand b: the rows of the device log, a row
\* sent without its log_id, a row with an unparsable timestamp, a row with no
\* fingerprint_id, and an element that is not a JSON object
DeviceRecords(b) ==
  {DeviceRecord(DeviceLog[b][i], "ok", i) : i \in DOMAIN DeviceLog[b]}
    \cup {DeviceRecord(DeviceLog[b][1], "ok", 0),
          DeviceRecord(DeviceLog[b][1], "bad", 1),
          DeviceRecord(0, "ok", 2),
          NonDict}

Batches(b) ==
  UNION {[1..n -> DeviceRecords(b)] : n \in 0..MaxBatch}

\* User.query.filter_by(brand_id, fingerprint_id, is_active=True)
StaffFor(b, fp) ==
  {u \in UserIds : /\ UserTable[u].brand_id = b
                   /\ UserTable[u].fingerprint_id = fp
                   /\ UserTable[u].is_active}
\* Member.query.filter_by(brand_id, fingerprint_id)
MemberFor(b, fp) ==
  {m \in MemberIds : /\ MemberTable[m].brand_id = b
                     /\ MemberTable[m].fingerprint_id = fp}

\* EmployeeAttendance.query.filter_by(user_id, fingerprint_log_id).first()
StaffDuplicate(emp, u, log_id) ==
  \E i \in DOMAIN emp : emp[i].user_id = u /\ emp[i].log_id = log_id
\* MemberAttendance.query.filter_by(fingerprint_log_id).first()
MemberDuplicate(mem, log_id) ==
  \E i \in DOMAIN mem : mem[i].log_id = log_id

AddError(acc) == [acc EXCEPT !.errors = @ + 1]

\* one iteration of the loop over records; acc carries the two tables as the
\* session sees them (autoflush), the synced counter and the error list length
ProcessRecord(b, record, acc) ==
  IF record.kind # "dict" THEN AddError(acc)
  ELSE IF record.fingerprint_id = 0 \/ record.timestamp = "missing" THEN AddError(acc)
  ELSE IF record.timestamp = "bad" THEN AddError(acc)
  ELSE IF StaffFor(b, record.fingerprint_id) # {} THEN
    LET staff_user == CHOOSE u \in StaffFor(b, record.fingerprint_id) : TRUE IN
      IF record.log_id # 0 /\ StaffDuplicate(acc.emp, staff_user, record.log_id)
      THEN acc
      ELSE [acc EXCEPT !.emp = Append(@, [user_id |-> staff_user, brand_id |-> b,
                                          log_id |-> record.log_id]),
                       !.synced = @ + 1]
  ELSE IF MemberFor(b, record.fingerprint_id) = {} THEN AddError(acc)
  ELSE
    LET member == CHOOSE m \in MemberFor(b, record.fingerprint_id) : TRUE IN
      IF record.log_id # 0 /\ MemberDuplicate(acc.mem, record.log_id)
      THEN acc
      ELSE [acc EXCEPT !.mem = Append(@, [member_id |-> member, brand_id |-> b,
                                          log_id |-> record.log_id]),
                       !.synced = @ + 1]

RECURSIVE ProcessRecords(_, _, _)
ProcessRecords(b, records, acc) ==
  IF records = <<>> THEN acc
  ELSE ProcessRecords(b, Tail(records), ProcessRecord(b, Head(records), acc))

\* the response reports at most this many errors (errors[:10])
ErrorsReported == 10

\* a record that gets past validation and resolves to a person of the brand
Resolves(b, record) ==
  /\ record.kind = "dict"
  /\ record.fingerprint_id # 0
  /\ record.timestamp = "ok"
  /\ StaffFor(b, record.fingerprint_id) \cup MemberFor(b, record.fingerprint_id) # {}

RecordKey(b, record) ==
  [brand_id |-> b, fingerprint_id |-> record.fingerprint_id, log_id |-> record.log_id]

SyncResponse(b, records, http, acc) ==
  [brand_id |-> b, records |-> records, http |-> http,
   synced |-> acc.synced, errors |-> Min(acc.errors, ErrorsReported)]

sync_attendance(b, records) ==
  IF b = NoBrand \/ ~UsesFingerprint(b) THEN
    /\ lastSync' = SyncResponse(b, records, 400, [synced |-> 0, errors |-> 0])
    /\ UNCHANGED <<empRows, memRows, submitted>>
  ELSE
    LET acc == ProcessRecords(b, records,
                 [emp |-> empRows, mem |-> memRows, synced |-> 0, errors |-> 0])
        \* records[-1].get('log_id') after the loop and the commit
        http == IF records # <<>> /\ records[Len(records)].kind # "dict"
                THEN 500 ELSE 200
    IN
      /\ empRows' = acc.emp
      /\ memRows' = acc.mem
      /\ submitted' = submitted \cup
            {RecordKey(b, records[i]) :
               i \in {j \in DOMAIN records :
                        Resolves(b, records[j]) /\ records[j].log_id # 0}}
      /\ lastSync' = SyncResponse(b, records, http, acc)

SyncStep ==
  /\ \E b \in SyncBrands : \E records \in Batches(b) :
       /\ Len(empRows) + Len(memRows) + Len(records) <= MaxRows
       /\ sync_attendance(b, records)
  /\ UNCHANGED <<subVars, cmdVars, promoVars, deskVars, syncVars>>

NextAtt == SyncStep

SpecAtt == Init /\ [][NextAtt]_vars

(***************************************************************************)
(* Device command queue: the endpoints that create commands, the poll and  *)
(* completion endpoints (app/routes/api.py), and the desktop bridge that   *)
(* executes the commands on the device database                           *)
(* (desktop_software/core/sync_manager.py).                                *)
(***************************************************************************)
MaxCmds == 2

\* the brand the bridge is configured for (api_client.brand_id)
BridgeBrand == 1
CmdBrands == {NoBrand, 1, 2}
CmdIds == 1..Len(cmds)

\* what json.loads(command_data) gives the bridge: a JSON object, or the
\* JSON null that update-member stores when the request has "updates": null
CommandData == {"object", "null"}

\* executed_at is NULL until the first completion report; each report
\* stores a later utcnow(), modelled as the number of reports received
NoReport == 0

DeviceCommand(brand_id, command_type, data) ==
  [brand_id |-> brand_id, command_type |-> command_type,
   command_data |-> data, status |-> "pending", executed_at |-> NoReport]

\* db.session.add(command); db.session.commit()
AddCommand(command) ==
  /\ cmds' = Append(cmds, command)
  /\ lastAttempt' = Append(lastAttempt, "none")
  /\ UNCHANGED <<pc, todo, success, localDb, lastPoll>>

block_member_command(brand_id) ==
  IF brand_id = NoBrand THEN UNCHANGED cmdVars
  ELSE AddCommand(DeviceCommand(brand_id, "block_member", "object"))

unblock_member_command(brand_id) ==
  IF brand_id = NoBrand THEN UNCHANGED cmdVars
  ELSE AddCommand(DeviceCommand(brand_id, "unblock_member", "object"))

update_member_command(brand_id, updates) ==
  IF brand_id = NoBrand THEN UNCHANGED cmdVars
  ELSE AddCommand(DeviceCommand(brand_id, "update_member", updates))

add_member_command(brand_id) ==
  IF brand_id = NoBrand THEN UNCHANGED cmdVars
  ELSE AddCommand(DeviceCommand(brand_id, "add_member", "object"))

\* DeviceCommand.get_pending_commands: pending rows of the brand, oldest first
RECURSIVE PendingFrom(_, _)
PendingFrom(brand_id, c) ==
  IF c > Len(cmds) THEN <<>>
  ELSE IF cmds[c].brand_id = brand_id /\ cmds[c].status = "pending"
       THEN <<c>> \o PendingFrom(brand_id, c + 1)
       ELSE PendingFrom(brand_id, c + 1)
get_pending_commands(brand_id) == PendingFrom(brand_id, 1)

\* complete_command: the row after the report, whatever its status was
CompleteCommand_KeepsFailedPending(command, ok) ==
  [command EXCEPT !.status = IF ok THEN "completed" ELSE "pending",
                  !.executed_at = @ + 1]
CompleteCommand(command, ok) ==
  [command EXCEPT !.status = IF ok THEN "completed" ELSE "failed",
                  !.executed_at = @ + 1]

\* POST /api/device/commands/<command_id>/complete with {"success": ok},
\* sent by any holder of the API key
complete_command(command_id, ok) ==
  IF command_id \notin CmdIds
    THEN UNCHANGED cmdVars
  ELSE /\ cmds' = [cmds EXCEPT ![command_id] = CompleteCommand(@, ok)]
       /\ UNCHANGED <<pc, todo, success, localDb, lastAttempt, lastPoll>>

\* the end_date of the target Employee row (blocked: in the past) after a
\* command that the device database carried out
ExecuteOnDb(command, row) ==
  CASE command.command_type = "block_member" -> "blocked"
    [] command.command_type = "unblock_member" -> "open"
    [] OTHER -> row

\* _execute_command raises on a JSON null ('emp_name' in None)
ExecuteRaises(command) ==
  command.command_type = "update_member" /\ command.command_data # "object"

\* the loop of _execute_pending_commands moves on to the next command
NextCommand ==
  /\ todo' = Tail(todo)
  /\ pc' = IF Tail(todo) = <<>> THEN "idle" ELSE "exec"
  /\ success' = FALSE

\* api.get_pending_commands() answered with success
PollOk ==
  /\ pc = "idle"
  /\ todo' = get_pending_commands(BridgeBrand)
  /\ pc' = IF todo' = <<>> THEN "idle" ELSE "exec"
  /\ lastPoll' = "ok"
  /\ UNCHANGED <<cmds, success, localDb, lastAttempt>>

\* api.get_pending_commands() failed: response.get('success') is falsy
PollFailed ==
  /\ pc = "idle"
  /\ lastPoll' = "failed"
  /\ UNCHANGED <<cmds, pc, todo, success, localDb, lastAttempt>>

\* success = self._execute_command(cmd)
execute_command ==
  /\ pc = "exec"
  /\ LET c == Head(todo) IN
       IF ExecuteRaises(cmds[c])
       THEN \* except Exception: the error is noted, nothing is reported
            /\ lastAttempt' = [lastAttempt EXCEPT ![c] = "raised"]
            /\ NextCommand
            /\ UNCHANGED <<cmds, localDb, lastPoll>>
       ELSE \E ok \in BOOLEAN :
            /\ success' = ok
            /\ localDb' = IF ok THEN ExecuteOnDb(cmds[c], localDb) ELSE localDb
            /\ pc' = "report"
            /\ UNCHANGED <<cmds, todo, lastAttempt, lastPoll>>

\* self.api.complete_command(...) reaches the server
ReportDelivered ==
  /\ pc = "report"
  /\ LET c == Head(todo) IN
       /\ cmds' = [cmds EXCEPT ![c] = CompleteCommand(@, success)]
       /\ lastAttempt' = [lastAttempt EXCEPT ![c] =
                            IF success THEN "ok_reported" ELSE "failed_reported"]
  /\ NextCommand
  /\ UNCHANGED <<localDb, lastPoll>>

\* the request fails; _make_request swallows the error, nothing is retried
ReportLost ==
  /\ pc = "report"
  /\ LET c == Head(todo) IN
       lastAttempt' = [lastAttempt EXCEPT ![c] =
                         IF success THEN "ok_lost" ELSE "failed_lost"]
  /\ NextCommand
  /\ UNCHANGED <<cmds, localDb, lastPoll>>

CreateBlock ==
  /\ Len(cmds) < MaxCmds
  /\ \E b \in CmdBrands : block_member_command(b)
  /\ UNCHANGED <<subVars, attVars, promoVars, deskVars, syncVars>>
CreateUnblock ==
  /\ Len(cmds) < MaxCmds
  /\ unblock_member_command(BridgeBrand)
  /\ UNCHANGED <<subVars, attVars, promoVars, deskVars, syncVars>>
CreateUpdate ==
  /\ Len(cmds) < MaxCmds
  /\ \E updates \in CommandData : update_member_command(BridgeBrand, updates)
  /\ UNCHANGED <<subVars, attVars, promoVars, deskVars, syncVars>>
CreateAdd ==
  /\ Len(cmds) < MaxCmds
  /\ add_member_command(BridgeBrand)
  /\ UNCHANGED <<subVars, attVars, promoVars, deskVars, syncVars>>
PollOkStep == PollOk /\ UNCHANGED <<subVars, attVars, promoVars, deskVars, syncVars>>
PollFailedStep == PollFailed /\ UNCHANGED <<subVars, attVars, promoVars, deskVars, syncVars>>
ExecuteStep == execute_command /\ UNCHANGED <<subVars, attVars, promoVars, deskVars, syncVars>>
ReportDeliveredStep == ReportDelivered /\ UNCHANGED <<subVars, attVars, promoVars, deskVars, syncVars>>
ReportLostStep == ReportLost /\ UNCHANGED <<subVars, attVars, promoVars, deskVars, syncVars>>

NextCmd ==
  \/ CreateBlock
  \/ CreateUnblock
  \/ CreateUpdate
  \/ CreateAdd
  \/ PollOkStep
  \/ PollFailedStep
  \/ ExecuteStep
  \/ ReportDeliveredStep
  \/ ReportLostStep

SpecCmd == Init /\ [][NextCmd]_vars

\* the bridge keeps polling (the sync loop runs every sync_interval) and the
\* API stays reachable: every request of the bridge is answered
NextCmdReachable ==
  \/ CreateBlock
  \/ CreateUnblock
  \/ CreateUpdate
  \/ CreateAdd
  \/ PollOkStep
  \/ ExecuteStep
  \/ ReportDeliveredStep

SpecCmdFair ==
  /\ Init
  /\ [][NextCmdReachable]_vars
  /\ WF_vars(PollOkStep)
  /\ WF_vars(ExecuteStep)
  /\ WF_vars(ReportDeliveredStep)

(***************************************************************************)
(* The desktop program as a whole: the sync cycle above together with the  *)
(* commands page (desktop_software/ui/pages/commands.py), from which the   *)
(* operator runs a listed command by hand (AppController.execute_command). *)
(***************************************************************************)
MaxExecutions == 3

\* CommandsPage._refresh_commands: AppController.get_pending_commands gives
\* the pending commands, or [] when the request fails
refresh_commands(answered) ==
  /\ commands_list' = IF answered THEN get_pending_commands(BridgeBrand) ELSE <<>>
  /\ UNCHANGED <<cmdVars, executions>>

\* CommandsPage._execute_command on entry i of the list shown:
\* AppController.execute_command calls SyncManager._execute_command and
\* returns its result (False when it raises); no completion is reported
ManualExecute(i, ok, answered) ==
  LET c == commands_list[i]
      done == ok /\ ~ExecuteRaises(cmds[c])
  IN /\ localDb' = IF done THEN ExecuteOnDb(cmds[c], localDb) ELSE localDb
     /\ executions' = IF done THEN Append(executions, c) ELSE executions
     /\ commands_list' = IF ~done THEN commands_list
                         ELSE IF answered THEN get_pending_commands(BridgeBrand)
                         ELSE <<>>
     /\ UNCHANGED <<cmds, pc, todo, success, lastAttempt, lastPoll>>

DeskRefresh ==
  /\ \E answered \in BOOLEAN : refresh_commands(answered)
  /\ UNCHANGED <<subVars, attVars, promoVars, syncVars>>
DeskManualExecute ==
  /\ Len(executions) < MaxExecutions
  /\ \E i \in DOMAIN commands_list, ok \in BOOLEAN, answered \in BOOLEAN :
       ManualExecute(i, ok, answered)
  /\ UNCHANGED <<subVars, attVars, promoVars, syncVars>>
\* the sync cycle's execute step, with the run noted in the history
DeskExecute ==
  /\ Len(executions) < MaxExecutions
  /\ execute_command
  /\ executions' = IF pc' = "report" /\ success'
                   THEN Append(executions, Head(todo)) ELSE executions
  /\ UNCHANGED commands_list
  /\ UNCHANGED <<subVars, attVars, promoVars, syncVars>>

NextDesk ==
  \/ CreateBlock
  \/ CreateUnblock
  \/ PollOkStep
  \/ DeskExecute
  \/ ReportDeliveredStep
  \/ ReportLostStep
  \/ DeskRefresh
  \/ DeskManualExecute

SpecDesk == Init /\ [][NextDesk]_vars

(***************************************************************************)
(* SyncManager.sync() called from two threads of the desktop program: the  *)
(* loop of SyncManager._auto_sync_loop and the thread that                 *)
(* AppController.sync_now starts.  A thread can be suspended between any   *)
(* two statements, so the test of is_syncing and the assignment to it are  *)
(* separate steps.                                                         *)
(***************************************************************************)
SyncThreads == {"auto", "manual"}

\* positions inside the try block of sync(), in order, and the finally block
SyncBody == {"heartbeat", "members", "commands", "finally"}

\* where a thread goes when its call of sync() has returned
AfterSync(t) == IF t = "manual" THEN "returned" ELSE "idle"

\* _auto_sync_loop: the next iteration calls self.sync()
auto_sync_loop ==
  /\ syncPc["auto"] = "idle"
  /\ syncPc' = [syncPc EXCEPT !["auto"] = "test"]
  /\ UNCHANGED <<is_syncing, ctl_syncing, syncResult>>

\* AppController.sync_now: guarded by the controller's own flag, then a
\* thread is started that calls sync_manager.sync()
sync_now ==
  IF ctl_syncing
    THEN UNCHANGED syncVars
  ELSE /\ ctl_syncing' = TRUE
       /\ syncPc' = [syncPc EXCEPT !["manual"] = "test"]
       /\ UNCHANGED <<is_syncing, syncResult>>

\* sync(): "if self.is_syncing: return {... already syncing}"
sync_test(t) ==
  /\ syncPc[t] = "test"
  /\ IF is_syncing
       THEN /\ syncResult' = [syncResult EXCEPT ![t] = "already_syncing"]
            /\ syncPc' = [syncPc EXCEPT ![t] = AfterSync(t)]
       ELSE /\ syncPc' = [syncPc EXCEPT ![t] = "set"]
            /\ UNCHANGED syncResult
  /\ UNCHANGED <<is_syncing, ctl_syncing>>

\* sync(): "self.is_syncing = True"
sync_set(t) ==
  /\ syncPc[t] = "set"
  /\ is_syncing' = TRUE
  /\ syncPc' = [syncPc EXCEPT ![t] = "heartbeat"]
  /\ UNCHANGED <<ctl_syncing, syncResult>>

\* sync(): the steps of the try block (heartbeat, push members, execute
\* commands); an exception in a step leads to the except and finally blocks
sync_step(t, raises) ==
  /\ syncPc[t] \in {"heartbeat", "members", "commands"}
  /\ syncPc' = [syncPc EXCEPT ![t] =
                  IF raises THEN "finally"
                  ELSE CASE syncPc[t] = "heartbeat" -> "members"
                         [] syncPc[t] = "members" -> "commands"
                         [] OTHER -> "finally"]
  /\ syncResult' = [syncResult EXCEPT ![t] = IF raises THEN "error" ELSE "success"]
  /\ UNCHANGED <<is_syncing, ctl_syncing>>

\* sync(): "finally: self.is_syncing = False", then "return result"
sync_finally(t) ==
  /\ syncPc[t] = "finally"
  /\ is_syncing' = FALSE
  /\ syncPc' = [syncPc EXCEPT ![t] = AfterSync(t)]
  /\ UNCHANGED <<ctl_syncing, syncResult>>

\* AppController._on_sync_complete / _on_sync_error on the main thread
on_sync_complete ==
  /\ syncPc["manual"] = "returned"
  /\ ctl_syncing' = FALSE
  /\ syncPc' = [syncPc EXCEPT !["manual"] = "idle"]
  /\ UNCHANGED <<is_syncing, syncResult>>

AutoLoopStep ==
  auto_sync_loop /\ UNCHANGED <<subVars, attVars, cmdVars, promoVars, deskVars>>
SyncNowStep ==
  sync_now /\ UNCHANGED <<subVars, attVars, cmdVars, promoVars, deskVars>>
SyncTestStep ==
  /\ \E t \in SyncThreads : sync_test(t)
  /\ UNCHANGED <<subVars, attVars, cmdVars, promoVars, deskVars>>
SyncSetStep ==
  /\ \E t \in SyncThreads : sync_set(t)
  /\ UNCHANGED <<subVars, attVars, cmdVars, promoVars, deskVars>>
SyncBodyStep ==
  /\ \E t \in SyncThreads, raises \in BOOLEAN : sync_step(t, raises)
  /\ UNCHANGED <<subVars, attVars, cmdVars, promoVars, deskVars>>
SyncFinallyStep ==
  /\ \E t \in SyncThreads : sync_finally(t)
  /\ UNCHANGED <<subVars, attVars, cmdVars, promoVars, deskVars>>
SyncCompleteStep ==
  on_sync_complete /\ UNCHANGED <<subVars, attVars, cmdVars, promoVars, deskVars>>

NextSync ==
  \/ AutoLoopStep
  \/ SyncNowStep
  \/ SyncTestStep
  \/ SyncSetStep
  \/ SyncBodyStep
  \/ SyncFinallyStep
  \/ SyncCompleteStep

SpecSync == Init /\ [][NextSync]_vars

(***************************************************************************)
(* The completion endpoint as the server sees it: besides the reports of   *)
(* the bridge modelled above, reports that arrive again or late, for       *)
(* example from a second bridge of the brand that fetched the same         *)
(* commands.                                                               *)
(***************************************************************************)
MaxReports == 2
ReportIds == 1..MaxCmds

CompleteRequest ==
  /\ \E command_id \in ReportIds, ok \in BOOLEAN :
       /\ command_id \in CmdIds => cmds[command_id].executed_at < MaxReports
       /\ complete_command(command_id, ok)
  /\ UNCHANGED <<subVars, attVars, promoVars, deskVars, syncVars>>

NextReport ==
  \/ CreateBlock
  \/ CreateUnblock
  \/ PollOkStep
  \/ ExecuteStep
  \/ ReportDeliveredStep
  \/ CompleteRequest

SpecReport == Init /\ [][NextReport]_vars

(***************************************************************************)
(* C1: after any sequence of create, renew, freeze, unfreeze,              *)
(* add_payment, stop and check_and_update_status, the status of every      *)
(* subscription is one of active, frozen, expired, cancelled, stopped.     *)
(***************************************************************************)
C1_StatusInSet == \A s \in SubIds : subs[s].status \in StatusSet

\* a subscription that was frozen, unfrozen and then found expired by a status check
C1_Witness ==
  /\ lastOp = Op("view", "ok")
  /\ \E s \in SubIds : subs[s].status = "expired" /\ Len(subs[s].freezes) > 0

(***************************************************************************)
(* C2: a successful freeze of d days sets end_date to exactly the previous *)
(* end_date plus d days, sets the status to frozen, and adds one freeze    *)
(* record whose freeze_days is d.                                          *)
(***************************************************************************)
C2_FreezeEffect ==
  [][\A u \in UserIds, s \in SubIds, d \in FreezeDayInputs :
       (freeze(u, s, d) /\ lastOp'.result = "ok") =>
          /\ subs'[s].end_date = subs[s].end_date + d
          /\ subs'[s].status = "frozen"
          /\ Len(subs'[s].freezes) = Len(subs[s].freezes) + 1
          /\ subs'[s].freezes[Len(subs'[s].freezes)] = d]_vars

C2_Witness ==
  /\ lastOp = Op("freeze", "ok")
  /\ \E s \in SubIds : subs[s].status = "frozen" /\ Len(subs[s].freezes) = 1

(***************************************************************************)
(* C3 (as stated): no operation ever moves a subscription whose status is  *)
(* expired, stopped or cancelled back to active or frozen.                 *)
(***************************************************************************)
C3_NoWayBack ==
  [][\A s \in SubIds :
       subs[s].status \in TerminalStatus =>
          subs'[s].status \notin {"active", "frozen"}]_vars

(***************************************************************************)
(* C3 (amended): only a successful renew moves a subscription whose status *)
(* is expired, stopped or cancelled back, and it moves it to active;       *)
(* unfreeze, freeze, add_payment, stop and check_and_update_status leave   *)
(* such a subscription out of active and frozen.                           *)
(***************************************************************************)
C3_OnlyRenewReactivates ==
  [][\A s \in SubIds :
       subs[s].status \in TerminalStatus =>
          \/ subs'[s].status \notin {"active", "frozen"}
          \/ lastOp' = Op("renew", "ok") /\ subs'[s].status = "active"]_vars

\* an unfreeze was requested on a subscription that is expired or stopped, and refused
C3_Witness ==
  /\ lastOp = Op("unfreeze", "not_frozen")
  /\ \A s \in SubIds : subs[s].status \in TerminalStatus
  /\ subs # <<>>

(***************************************************************************)
(* C8 (as stated): check_and_update_status moves a frozen subscription     *)
(* whose end date has passed to expired, just as it does an active one.    *)
(***************************************************************************)
C8_FrozenExpiresToo ==
  [][\A u \in UserIds, s \in SubIds :
       (/\ view(u, s)
        /\ lastOp'.result = "ok"
        /\ subs[s].status \in {"active", "frozen"}
        /\ subs[s].end_date < today) => subs'[s].status = "expired"]_vars

(***************************************************************************)
(* C8 (amended): check_and_update_status moves an active subscription      *)
(* whose end date has passed to expired; a frozen subscription is left     *)
(* frozen, whatever its end date.                                          *)
(***************************************************************************)
C8_OnlyActiveExpires ==
  [][\A u \in UserIds, s \in SubIds :
       (view(u, s) /\ lastOp'.result = "ok") =>
          /\ (subs[s].status = "active" /\ subs[s].end_date < today)
                => subs'[s].status = "expired"
          /\ subs[s].status = "frozen" => subs'[s] = subs[s]]_vars

\* a frozen subscription past its end date has had its status checked
C8_Witness ==
  /\ lastOp = Op("view", "ok")
  /\ \E s \in SubIds : subs[s].status = "frozen" /\ subs[s].end_date < today

(***************************************************************************)
(* C9: a user whose role cannot view all brands never changes a            *)
(* subscription of another brand: renew, freeze, unfreeze, add_payment and *)
(* stop requested by such a user leave the subscription row, its freezes   *)
(* and its payments unchanged.                                             *)
(***************************************************************************)
C9_NoCrossBrandChange ==
  [][\A u \in UserIds, s \in SubIds :
       (/\ ~UserTable[u].can_view_all_brands
        /\ UserTable[u].brand_id # subs[s].brand_id
        /\ \/ \E p \in PlanIds, paid \in AmountInputs :
                 renew(u, s, p, DefaultRenewStart(subs[s]), paid)
           \/ \E d \in FreezeDayInputs : freeze(u, s, d)
           \/ unfreeze(u, s)
           \/ \E a \in AmountInputs : add_payment(u, s, a)
           \/ stop(u, s))
       => subs'[s] = subs[s]]_vars

\* a user of another brand asked to freeze a freezable subscription and was refused
C9_Witness ==
  /\ lastOp = Op("freeze", "forbidden")
  /\ \E s \in SubIds : CanFreeze(subs[s])

(***************************************************************************)
(* C4: however often a record with a given log_id is sent, in one batch or *)
(* in several, exactly one attendance row with that log_id is left for the *)
(* person the record resolves to (the staff user if an active staff user   *)
(* of the brand has the fingerprint id, else the member of the brand).     *)
(***************************************************************************)
C4_OneRowPerLogId ==
  \A key \in submitted :
    LET staff == StaffFor(key.brand_id, key.fingerprint_id)
        members == MemberFor(key.brand_id, key.fingerprint_id)
    IN IF staff # {}
       THEN Cardinality({i \in DOMAIN empRows :
                           /\ empRows[i].user_id \in staff
                           /\ empRows[i].log_id = key.log_id}) = 1
       ELSE Cardinality({i \in DOMAIN memRows :
                           /\ memRows[i].member_id \in members
                           /\ memRows[i].log_id = key.log_id}) = 1

(***************************************************************************)
(* C5: every record of a request that passes validation, resolves to a     *)
(* person of the brand and was not sent before (or carries no log_id) adds *)
(* exactly one row: to the staff table if an active staff user of the      *)
(* brand has the fingerprint id, otherwise to the member table; no other   *)
(* record adds a row.                                                      *)
(***************************************************************************)
C5_OneRowPerRecord ==
  [][(attVars' # attVars /\ UsesFingerprint(lastSync'.brand_id)) =>
       LET b == lastSync'.brand_id
           recs == lastSync'.records
           Fresh(i) ==
             \/ recs[i].log_id = 0
             \/ /\ RecordKey(b, recs[i]) \notin submitted
                /\ \A j \in 1..(i - 1) :
                     ~(Resolves(b, recs[j]) /\ RecordKey(b, recs[j]) = RecordKey(b, recs[i]))
           Accepted == {i \in DOMAIN recs : Resolves(b, recs[i]) /\ Fresh(i)}
           ToStaff == {i \in Accepted : StaffFor(b, recs[i].fingerprint_id) # {}}
       IN /\ Len(empRows') = Len(empRows) + Cardinality(ToStaff)
          /\ Len(memRows') = Len(memRows) + Cardinality(Accepted \ ToStaff)]_vars

(***************************************************************************)
(* C10: a sync request for a fingerprint-enabled brand is answered with    *)
(* HTTP 200 whatever its records are; every record that is malformed or    *)
(* matches nobody adds one error and no row, and the rows written are      *)
(* those the remaining records would have written on their own.            *)
(***************************************************************************)
C10_AlwaysAnswered200 ==
  [][(attVars' # attVars /\ UsesFingerprint(lastSync'.brand_id)) =>
       LET b == lastSync'.brand_id
           recs == lastSync'.records
           good == SelectSeq(recs, LAMBDA r : Resolves(b, r))
           alone == ProcessRecords(b, good, [emp |-> empRows, mem |-> memRows,
                                             synced |-> 0, errors |-> 0])
       IN /\ lastSync'.http = 200
          /\ lastSync'.errors = Len(recs) - Len(good)
          /\ empRows' = alone.emp
          /\ memRows' = alone.mem]_vars

(***************************************************************************)
(* C6: every device command is created with status pending, and while the *)
(* bridge keeps polling and every request reaches the API, every command   *)
(* of the bridge's brand eventually has status completed or failed.        *)
(***************************************************************************)
C6_EventuallyDone ==
  /\ [][\A c \in DOMAIN cmds' : c \notin DOMAIN cmds => cmds'[c].status = "pending"]_vars
  /\ \A c \in 1..MaxCmds :
       (c \in CmdIds /\ cmds[c].brand_id = BridgeBrand)
         ~> (c \in CmdIds /\ cmds[c].status \in {"completed", "failed"})

(***************************************************************************)
(* C7 (as stated): a command whose last attempt failed part-way (it could  *)
(* not be executed on the device database, or its completion report did    *)
(* not reach the server) is returned again by the next successful poll.    *)
(***************************************************************************)
C7_RetryOnNextPoll ==
  [][PollOk =>
       \A c \in CmdIds :
         (/\ cmds[c].brand_id = BridgeBrand
          /\ lastAttempt[c] \in {"failed_reported", "failed_lost", "ok_lost", "raised"})
           => \E i \in DOMAIN todo' : todo'[i] = c]_vars

(***************************************************************************)
(* C7 (amended): a command whose completion report did not reach the       *)
(* server, or whose execution raised so that nothing was reported, stays   *)
(* pending, is returned again by the next successful poll and leaves the   *)
(* bridge's list only after being executed again; a command whose report   *)
(* reached the server, failure reports included, is not returned again.    *)
(***************************************************************************)
C7_RetryOnlyWhenUnreported ==
  [][/\ \A c \in CmdIds :
          lastAttempt[c] \in {"failed_lost", "ok_lost", "raised"}
            => cmds[c].status = "pending"
     /\ PollOk =>
          \A c \in CmdIds :
            /\ (/\ cmds[c].brand_id = BridgeBrand
                /\ lastAttempt[c] \in {"failed_lost", "ok_lost", "raised"})
                 => \E i \in DOMAIN todo' : todo'[i] = c
            /\ lastAttempt[c] \in {"failed_reported", "ok_reported"}
                 => /\ \A i \in DOMAIN todo' : todo'[i] # c
                    /\ cmds[c].status = IF lastAttempt[c] = "ok_reported"
                                        THEN "completed" ELSE "failed"
     /\ (todo # <<>> /\ todo' = Tail(todo))
          => \/ pc = "report"
             \/ pc = "exec" /\ ExecuteRaises(cmds[Head(todo)])]_vars

\* a command whose report was lost has been fetched and executed again
C7_Witness ==
  /\ pc = "report"
  /\ lastAttempt[Head(todo)] \in {"failed_lost", "ok_lost"}

(***************************************************************************)
(* C11: at every moment a member has at most one subscription whose status *)
(* is active and whose end_date is not before today.                       *)
(***************************************************************************)
C11_OneActivePerMember ==
  \A m \in MemberIds :
    Cardinality({s \in SubIds : /\ subs[s].member_id = m
                                /\ subs[s].status = "active"
                                /\ subs[s].end_date >= today}) <= 1

(***************************************************************************)
(* C12: the number of freeze records of a subscription never exceeds the   *)
(* max_freezes of the plan the subscription currently has.                 *)
(***************************************************************************)
C12_FreezeCountWithinPlan ==
  \A s \in SubIds :
    FreezeCount(subs[s]) <= PlanTable[subs[s].plan_id].max_freezes

(***************************************************************************)
(* C13: the total of the freeze_days of a subscription's freeze records    *)
(* never exceeds the max_freeze_days of the plan it currently has.         *)
(***************************************************************************)
C13_FreezeDaysWithinPlan ==
  \A s \in SubIds :
    TotalFreezeDays(subs[s]) <= PlanTable[subs[s].plan_id].max_freeze_days

(***************************************************************************)
(* C14: every successful freeze has a day count of at least 1 and leaves   *)
(* end_date strictly later than it was.                                    *)
(***************************************************************************)
C14_FreezeExtends ==
  [][\A u \in LifecycleUsers, s \in SubIds, d \in FormFreezeDays :
       (freeze(u, s, d) /\ lastOp'.result = "ok")
         => /\ d >= 1
            /\ subs'[s].end_date > subs[s].end_date]_vars

(***************************************************************************)
(* C15: at creation the stored total_amount is the plan price minus the    *)
(* stored discount, the stored offer_discount and the stored               *)
(* gift_card_amount, and the stored gift_card_amount is the amount taken   *)
(* from the gift card's balance.                                           *)
(***************************************************************************)
C15_TotalMatchesStoredParts ==
  [][(lastOp' = Op("create", "ok") /\ Len(subs') = Len(subs) + 1)
       => LET new == subs'[Len(subs')]
              g == new.gift_card_id
              deducted == IF g = NoCode THEN 0
                          ELSE giftCards[g].remaining_amount
                                 - giftCards'[g].remaining_amount
          IN /\ new.total_amount =
                  PlanTable[new.plan_id].price - new.discount
                    - new.offer_discount - new.gift_card_amount
             /\ new.gift_card_amount = deducted]_vars

(***************************************************************************)
(* C16: after any create, renew and add_payment with accepted form inputs  *)
(* no total_amount, paid_amount or remaining_amount is negative.           *)
(***************************************************************************)
C16_NoNegativeMoney ==
  \A s \in SubIds : /\ subs[s].total_amount >= 0
                    /\ subs[s].paid_amount >= 0
                    /\ subs[s].remaining_amount >= 0

(***************************************************************************)
(* C17: paid_amount is the sum of the subscription's payment records, and  *)
(* every payment record has an income record of the same amount.           *)
(***************************************************************************)
C17_PaidIsSumOfPayments ==
  \A s \in SubIds : /\ subs[s].paid_amount = SumSeq(subs[s].payments)
                    /\ subs[s].incomes = subs[s].payments

(***************************************************************************)
(* C18: after every step a gift card's remaining_amount lies between 0     *)
(* and its original_amount, and no step takes more from a card than the    *)
(* balance it had.                                                         *)
(***************************************************************************)
C18_BalanceWithinOriginal ==
  [][\A g \in GiftIds :
       /\ giftCards'[g].remaining_amount >= 0
       /\ giftCards'[g].remaining_amount <= GiftTable[g].original_amount
       /\ giftCards[g].remaining_amount - giftCards'[g].remaining_amount
            <= giftCards[g].remaining_amount]_vars

(***************************************************************************)
(* C19: a gift card that is not valid for use (status neither active nor   *)
(* partially_used, or past expires_at, or no balance left) keeps its       *)
(* remaining_amount and status in every step.                              *)
(***************************************************************************)
C19_InvalidCardUntouched ==
  [][\A g \in GiftIds :
       ~GiftCardIsValid(g) => giftCards'[g] = giftCards[g]]_vars

C23_TerminalCommandFrozen ==
  [][\A c \in CmdIds :
       cmds[c].status \in {"completed", "failed"}
         => /\ cmds'[c].status = cmds[c].status
            /\ cmds'[c].executed_at = cmds[c].executed_at]_vars

(***************************************************************************)
(* C21: each device command is run on the device database at most once,    *)
(* whatever the interleaving of sync cycles and executions by hand.        *)
(***************************************************************************)
C21_ExecutedAtMostOnce ==
  \A c \in CmdIds :
    Cardinality({i \in DOMAIN executions : executions[i] = c}) <= 1

(***************************************************************************)
(* C22: commands take effect in creation order: when several block and     *)
(* unblock commands were queued for the member and all of them have left   *)
(* the pending state, the end date in the device database is the one set   *)
(* by the most recently created of them.  Checked for the case most        *)
(* favourable to the claim, in which every one of them was reported        *)
(* completed.                                                              *)
(***************************************************************************)
C22_LastCommandWins ==
  LET queued == {c \in CmdIds : /\ cmds[c].brand_id = BridgeBrand
                                /\ cmds[c].command_type \in
                                     {"block_member", "unblock_member"}}
  IN (/\ Cardinality(queued) >= 2
      /\ \A c \in queued : cmds[c].status = "completed")
       => \E last \in queued :
            /\ \A c \in queued : c <= last
            /\ localDb = ExecuteOnDb(cmds[last], localDb)

====
